---- MODULE Spec2Model ----
(***************************************************************************)
(* Identity core of Backend-Glyde: the users collection, the signup and   *)
(* verify-email request handlers of AuthController, the User document      *)
(* methods (generateOTP, isOTPValid, save with its validators and hooks),  *)
(* the EmailManager and the JWTManager.                                    *)
(*                                                                         *)
(* Every request handler is an async function.  Between two awaits the     *)
(* handler runs without interruption on the single event loop, so each     *)
(* action below is one awaited operation together with the synchronous     *)
(* code that follows it up to the next await (or the response).  Handlers  *)
(* of different requests interleave at the awaits.                         *)
(*                                                                         *)
(* Three specifications share the state: Spec runs the request handlers,   *)
(* DocumentSpec calls the methods and hooks of one User document directly, *)
(* and TokenSpec calls the methods of the JWTManager directly.             *)
(***************************************************************************)
EXTENDS Integers, Sequences, FiniteSets

(* ------------------------------ bounds -------------------------------- *)

\* Number of request handlers that can be in flight at the same time.
NumProcs == 2

\* The clock advances in ticks of TickMs, at most MaxTicks times.
MaxTicks == 2

Procs == 1..NumProcs

(* ------------------------- request input sets ------------------------- *)

Emails == {"a@x.com", "b@x.com"}

Phones == {"+12345678901", "+12345678902"}

Passwords == {"secret1"}

\* Outcomes of Math.random(), as <<numerator, denominator>> in [0, 1).
RandomOutcomes == {<<999, 1000>>}

\* Salts bcrypt.genSalt can return.
Salts == {"salt1"}

(* ----------------------------- data model ----------------------------- *)

\* IUser.status of types/models.ts: every status the application names.
Statuses ==
  {"NEED_PHONE_VERIFICATION", "NEED_EMAIL_VERIFICATION", "NEED_PASSWORD_RESET",
   "TEMPORARY_BLOCKED", "BLOCKED", "ACTIVE"}

\* The enum validator of UserSchema.status.
StatusEnum ==
  {"NEED_PHONE_VERIFICATION", "TEMPORARY_BLOCKED", "BLOCKED", "ACTIVE"}

\* Number.prototype.toString for a non-negative integer: its decimal digits.
RECURSIVE ToString(_)
ToString(n) == IF n < 10 THEN <<n>> ELSE Append(ToString(n \div 10), n % 10)

\* The OTP lifetime of generateOTP: 10 minutes, in milliseconds.
OTPWindowMs == 10 * 60 * 1000

\* One tick of the clock is one OTP lifetime, so that a challenge issued at
\* time t is seen at t (fresh), at its expiresAt (the last valid instant)
\* and after it.
TickMs == OTPWindowMs

\* bcrypt.hash(plain, salt), collision-free.
Hash(plain, salt) == [hashed |-> TRUE, salt |-> salt, text |-> plain]

\* A password as it arrives in the request body; as a stored value, a
\* string that no bcrypt.hash call produced.
Plain(plain) == [hashed |-> FALSE, salt |-> "", text |-> plain]

\* A 60-character string that does not start with a bcrypt salt.
NotAHash60 == "xxxxxxxxxxxxxxxxxxxxxxxxxxxxxxxxxxxxxxxxxxxxxxxxxxxxxxxxxxxx"

\* The length of a bcrypt hash string.
BcryptHashLength == 60

\* bcrypt.compare(candidate, stored) for a string candidate: what the promise
\* resolves to, or "error" when it rejects.  A stored string of another
\* length than a hash compares false; one of that length is split into salt
\* and digest, and a salt that is none raises 'Invalid salt version'.
BcryptCompare(candidate, stored) ==
  IF stored.hashed
  THEN IF stored.text = candidate THEN "true" ELSE "false"
  ELSE IF Len(stored.text) # BcryptHashLength THEN "false" ELSE "error"

\* user.comparePassword(candidatePassword)
comparePassword(user, candidatePassword) ==
  IF user.password.text = ""
  THEN "false"
  ELSE BcryptCompare(candidatePassword, user.password)

\* UserSchema.signupMethod
SignupMethods == {"EMAIL", "PHONE", "GOOGLE"}

\* The default of UserSchema.status, applied when no status is supplied.
DefaultStatus(signupMethod) ==
  IF signupMethod = "PHONE" THEN "NEED_PHONE_VERIFICATION" ELSE "ACTIVE"

\* new User({... signupMethod: 'EMAIL', status: 'NEED_EMAIL_VERIFICATION'}):
\* role takes its schema default, otp is not set.
NewUser(id, email, phone, password) ==
  [_id |-> id, email |-> email, phone |-> phone, password |-> Plain(password),
   signupMethod |-> "EMAIL", role |-> "USER", otp |-> <<>>,
   status |-> "NEED_EMAIL_VERIFICATION"]

\* A mutant of the code generation that draws from 0..999999.
OTPCode_FromZero(rnd) ==
  ToString(rnd[1] * (1000000 \div rnd[2])
           + (rnd[1] * (1000000 % rnd[2])) \div rnd[2])

\* Math.floor(100000 + Math.random() * 900000).toString();
\* rnd[1] * 900000 / rnd[2] is floored in two parts, whole multiples of
\* rnd[2] first, so that no intermediate product leaves the integer range.
OTPCode(rnd) ==
  ToString(100000 + rnd[1] * (900000 \div rnd[2])
                  + (rnd[1] * (900000 % rnd[2])) \div rnd[2])

\* A mutant of generateOTP that keeps a challenge the document already has.
generateOTP_KeepFirst(user, t, rnd) ==
  IF user.otp # <<>>
  THEN user
  ELSE [user EXCEPT !.otp = <<[code |-> OTPCode(rnd), expiresAt |-> t + OTPWindowMs]>>]

\* user.generateOTP(): sets this.otp and returns it.
generateOTP(user, t, rnd) ==
  [user EXCEPT !.otp = <<[code |-> OTPCode(rnd), expiresAt |-> t + OTPWindowMs]>>]

\* A mutant of isOTPValid that forgets the comparison of the codes.
isOTPValid_NoCompare(user, code, t) ==
  /\ user.otp # <<>>
  /\ user.otp[1].code # <<>>
  /\ ~(user.otp[1].expiresAt < t)

\* A mutant of isOTPValid that forgets the expiry test.
isOTPValid_NoExpiry(user, code, t) ==
  IF user.otp = <<>> \/ user.otp[1].code = <<>>
  THEN FALSE
  ELSE user.otp[1].code = code

\* A mutant of isOTPValid that already rejects at the instant expiresAt.
isOTPValid_StrictExpiry(user, code, t) ==
  IF user.otp = <<>> \/ user.otp[1].code = <<>>
  THEN FALSE
  ELSE IF user.otp[1].expiresAt <= t
       THEN FALSE
       ELSE user.otp[1].code = code

\* user.isOTPValid(code) evaluated at time t.
isOTPValid(user, code, t) ==
  IF user.otp = <<>> \/ user.otp[1].code = <<>>
  THEN FALSE
  ELSE IF user.otp[1].expiresAt < t
       THEN FALSE
       ELSE user.otp[1].code = code

\* A mutant of the toJSON transform that deletes nothing.
toJSON_Identity(user) == user

\* The toJSON transform: password and otp are deleted.
toJSON(user) ==
  [_id |-> user._id, email |-> user.email, phone |-> user.phone,
   signupMethod |-> user.signupMethod, role |-> user.role,
   status |-> user.status]

(* ------------------------------ JWTManager ---------------------------- *)

VARIABLE
  env               \* process.env as the JWTManager constructor reads it

\* The environment of the test setup.
TestEnv ==
  [JWT_SECRET |-> "test-jwt-secret", JWT_REFRESH_SECRET |-> "test-jwt-refresh-secret"]

\* Environments the server can be started in: the test setup's, one that
\* sets neither secret ("" stands for an unset variable) and one that sets
\* both to the same value.
Environments ==
  {TestEnv,
   [JWT_SECRET |-> "", JWT_REFRESH_SECRET |-> ""],
   [JWT_SECRET |-> "one-secret", JWT_REFRESH_SECRET |-> "one-secret"]}

\* process.env['JWT_SECRET'] || 'your-super-secret-jwt-key-here'
accessTokenSecret ==
  IF env.JWT_SECRET # "" THEN env.JWT_SECRET ELSE "your-super-secret-jwt-key-here"

\* process.env['JWT_REFRESH_SECRET'] || 'your-super-secret-refresh-key-here'
refreshTokenSecret ==
  IF env.JWT_REFRESH_SECRET # "" THEN env.JWT_REFRESH_SECRET
  ELSE "your-super-secret-refresh-key-here"

\* The lifetimes are read from JWT_EXPIRES_IN and JWT_REFRESH_EXPIRES_IN; the
\* model keeps them at the values of the test setup.
\* '1h' and '7d' in seconds.
accessTokenExpiry == 60 * 60

refreshTokenExpiry == 7 * 24 * 60 * 60

\* JWTPayload.role is optional: the payload of a token without a role.
NoRole == ""

\* jwt.sign(payload, secret, {expiresIn, issuer, audience}) at time t (ms).
Sign(payload, secret, expiresIn, t) ==
  [claims |-> [userId |-> payload.userId, role |-> payload.role,
               iat |-> t \div 1000, exp |-> (t \div 1000) + expiresIn,
               iss |-> "glyde-backend", aud |-> "glyde-frontend"],
   key |-> secret]

generateAccessToken(payload, t) ==
  Sign(payload, accessTokenSecret, accessTokenExpiry, t)

generateRefreshToken(payload, t) ==
  Sign(payload, refreshTokenSecret, refreshTokenExpiry, t)

generateTokenPair(payload, t) ==
  [accessToken |-> generateAccessToken(payload, t),
   refreshToken |-> generateRefreshToken(payload, t)]

\* A string that does not split into header.payload.signature.
NotAJWT == [claims |-> <<>>, key |-> ""]

\* No error.
NoError == [name |-> "", message |-> ""]

\* jwt.verify(token, secret, {issuer, audience}) at time t (ms): the decoded
\* claims as <<claims>>, or the error thrown.  The library checks the shape,
\* the signature, exp, the audience and the issuer, in this order.
JwtVerify(token, secret, t) ==
  IF token.claims = <<>>
  THEN [error |-> [name |-> "JsonWebTokenError", message |-> "jwt malformed"],
        decoded |-> <<>>]
  ELSE IF token.key # secret
  THEN [error |-> [name |-> "JsonWebTokenError", message |-> "invalid signature"],
        decoded |-> <<>>]
  ELSE IF (t \div 1000) >= token.claims.exp
  THEN [error |-> [name |-> "TokenExpiredError", message |-> "jwt expired"],
        decoded |-> <<>>]
  ELSE IF token.claims.aud # "glyde-frontend"
  THEN [error |-> [name |-> "JsonWebTokenError", message |-> "jwt audience invalid"],
        decoded |-> <<>>]
  ELSE IF token.claims.iss # "glyde-backend"
  THEN [error |-> [name |-> "JsonWebTokenError", message |-> "jwt issuer invalid"],
        decoded |-> <<>>]
  ELSE [error |-> NoError, decoded |-> <<token.claims>>]

\* The catch block of verifyAccessToken and verifyRefreshToken: the Error
\* thrown for an error of jwt.verify.
VerifyError(error, expired, invalid) ==
  IF error.name = "TokenExpiredError"
  THEN expired
  ELSE IF error.name = "JsonWebTokenError"
  THEN invalid
  ELSE "Token verification failed"

\* The outcome of a verification: the payload returned as <<claims>>, or the
\* message of the Error thrown.
Verification(r, expired, invalid) ==
  IF r.error = NoError
  THEN [ok |-> TRUE, payload |-> r.decoded, error |-> ""]
  ELSE [ok |-> FALSE, payload |-> <<>>, error |-> VerifyError(r.error, expired, invalid)]

\* A mutant of verifyAccessToken that verifies with the refresh secret.
verifyAccessToken_RefreshSecret(token, t) ==
  Verification(JwtVerify(token, refreshTokenSecret, t),
               "Access token has expired", "Invalid access token")

verifyAccessToken(token, t) ==
  Verification(JwtVerify(token, accessTokenSecret, t),
               "Access token has expired", "Invalid access token")

\* A mutant of verifyRefreshToken that verifies with the access secret.
verifyRefreshToken_AccessSecret(token, t) ==
  Verification(JwtVerify(token, accessTokenSecret, t),
               "Refresh token has expired", "Invalid refresh token")

verifyRefreshToken(token, t) ==
  Verification(JwtVerify(token, refreshTokenSecret, t),
               "Refresh token has expired", "Invalid refresh token")

\* The outcome of refreshAccessToken: the new access token as <<token>>, or
\* the message of the Error thrown.
Refreshed(v, token) ==
  IF v.ok
  THEN [ok |-> TRUE, token |-> <<token>>, error |-> ""]
  ELSE [ok |-> FALSE, token |-> <<>>, error |-> v.error]

\* A mutant of refreshAccessToken that throws one error for every failure.
refreshAccessToken_OneError(refreshToken, t) ==
  LET v == verifyRefreshToken(refreshToken, t)
  IN IF v.ok
     THEN Refreshed(v, generateAccessToken([userId |-> v.payload[1].userId,
                                            role |-> v.payload[1].role], t))
     ELSE [ok |-> FALSE, token |-> <<>>, error |-> "Invalid refresh token"]

\* A mutant of refreshAccessToken that gives every new token the default
\* role of an account instead of the role of the refresh token.
refreshAccessToken_DefaultRole(refreshToken, t) ==
  LET v == verifyRefreshToken(refreshToken, t)
  IN IF v.ok
     THEN Refreshed(v, generateAccessToken(
                         [userId |-> v.payload[1].userId,
                          role |-> "USER"], t))
     ELSE Refreshed(v, NotAJWT)

\* refreshAccessToken(refreshToken) at time t: verifyRefreshToken, then a
\* new access token for the decoded userId and, when it is set, role; the
\* catch block rethrows the error it caught.
refreshAccessToken(refreshToken, t) ==
  LET v == verifyRefreshToken(refreshToken, t)
  IN IF v.ok
     THEN Refreshed(v, generateAccessToken(
                         [userId |-> v.payload[1].userId,
                          role |-> IF v.payload[1].role # NoRole
                                   THEN v.payload[1].role ELSE NoRole], t))
     ELSE Refreshed(v, NotAJWT)

(* ------------------------------ responses ----------------------------- *)

NoData == [kind |-> "none"]

NoResponse == [success |-> FALSE, message |-> "", statusCode |-> <<>>, data |-> NoData]

UserAlreadyExists ==
  [success |-> FALSE, message |-> "User already exists", statusCode |-> <<400>>, data |-> NoData]

DeliveryFailed ==
  [success |-> FALSE, message |-> "Email verification failed", statusCode |-> <<400>>, data |-> NoData]

SignupFailed ==
  [success |-> FALSE, message |-> "Signup failed", statusCode |-> <<>>, data |-> NoData]

OTPSent(email) ==
  [success |-> TRUE, message |-> "OTP sent to email", statusCode |-> <<>>,
   data |-> [kind |-> "pending", email |-> email]]

UserNotFound ==
  [success |-> FALSE, message |-> "User not found", statusCode |-> <<400>>, data |-> NoData]

InvalidOTP ==
  [success |-> FALSE, message |-> "Invalid OTP", statusCode |-> <<400>>, data |-> NoData]

WelcomeEmailFailed ==
  [success |-> FALSE, message |-> "Welcome email failed", statusCode |-> <<400>>, data |-> NoData]

VerificationFailed ==
  [success |-> FALSE, message |-> "Email verification failed", statusCode |-> <<>>, data |-> NoData]

Verified(user, tokens) ==
  [success |-> TRUE, message |-> "Email verification successful! Welcome to Glyde",
   statusCode |-> <<>>,
   data |-> [kind |-> "session", user |-> toJSON(user),
             accessToken |-> tokens.accessToken,
             refreshToken |-> tokens.refreshToken]]

(* ------------------------------- state -------------------------------- *)

VARIABLES
  users,            \* the users collection: a set of account documents
  now,              \* Date.now(), in milliseconds
  pc,               \* pc[p]: where handler p stands
  req,              \* req[p]: the body of the request p is serving
  doc,              \* doc[p]: the User document handler p holds, as <<>> or <<d>>
  resp,             \* resp[p]: the response p returned last
  welcomeSent,      \* history: welcome emails delivered, per address
  verificationSent, \* history: verification emails delivered, as {to, code}
  activated,        \* history: accounts a verify save made ACTIVE, with the code validated
  held,             \* the token pair a client holds, as <<>> or <<h>>
  out               \* the last call of a document or JWTManager method, with its result

vars == <<users, now, pc, req, doc, resp, welcomeSent,
          verificationSent, activated, held, out, env>>

\* No method has been called yet.
NoCall == [op |-> "none", arg |-> <<>>, at |-> 0, result |-> <<>>]

NoRequest == [op |-> "none", email |-> "", phone |-> "", password |-> "", otp |-> <<>>]

\* The code of the challenge the stored accounts start with.
SeedCode == ToString(123456)

\* Codes a verify request submits: the seeded one and one a generateOTP
\* call can produce.
SubmittedCodes == {SeedCode, OTPCode(<<0, 1>>)}

\* Documents that an earlier run of the service, or another writer of the
\* same database, left in the collection the server connects to.
SeedAccount(role, otp, status) ==
  [_id |-> 1, email |-> "a@x.com", phone |-> "+12345678901",
   password |-> Hash("secret1", "salt1"), signupMethod |-> "EMAIL",
   role |-> role, otp |-> otp, status |-> status]

\* The challenge of a seeded account: issued at time 0.
SeedOTP == <<[code |-> SeedCode, expiresAt |-> OTPWindowMs]>>

SeedAccounts ==
  {SeedAccount("USER", SeedOTP, s) : s \in Statuses}
    \cup {SeedAccount("ADMIN", SeedOTP, "NEED_EMAIL_VERIFICATION"),
          SeedAccount("USER", <<>>, "NEED_EMAIL_VERIFICATION")}

Init ==
  /\ users \in {{}} \cup {{a} : a \in SeedAccounts}
  /\ now = 0
  /\ pc = [p \in Procs |-> "idle"]
  /\ req = [p \in Procs |-> NoRequest]
  /\ doc = [p \in Procs |-> <<>>]
  /\ resp = [p \in Procs |-> NoResponse]
  /\ welcomeSent = [e \in Emails |-> 0]
  /\ verificationSent = {}
  /\ activated = {}
  /\ held = <<>>
  /\ out = NoCall
  /\ env = TestEnv

(* ------------------------------ the store ----------------------------- *)

\* A mutant of the duplicate query that looks at the email alone.
FindByEmailOrPhone_EmailOnly(coll, email, phone) ==
  {u \in coll : u.email = email}

\* User.findOne({$or: [{email}, {phone}]}): the matching documents.
FindByEmailOrPhone(coll, email, phone) ==
  {u \in coll : u.email = email \/ u.phone = phone}

\* A mutant of the pending query that drops the status filter.
FindPendingByEmail_AnyStatus(coll, email) ==
  {u \in coll : u.email = email}

\* User.findOne({email, status: 'NEED_EMAIL_VERIFICATION'})
FindPendingByEmail(coll, email) ==
  {u \in coll : u.email = email /\ u.status = "NEED_EMAIL_VERIFICATION"}

\* An _id no stored document and no document in flight carries.
FreshId ==
  LET used == {u._id : u \in users} \cup {doc[p][1]._id : p \in {q \in Procs : doc[q] # <<>>}}
      free == {i \in 1..(NumProcs + Cardinality(Emails) + 1) : i \notin used}
  IN CHOOSE i \in free : \A j \in free : i <= j

\* A mutant of the insert that skips validation and has no unique index.
InsertAccepted_Unchecked(d, coll) == TRUE

\* save() of a new document: the schema validators pass and the unique
\* sparse indexes on email and phone admit the document.
InsertAccepted(d, coll) ==
  /\ d.status \in StatusEnum
  /\ d.password.text # ""
  /\ \A u \in coll : u.email # d.email /\ u.phone # d.phone

\* A mutant of the pre-save hook that stores the password as it came.
PreSaveHash_NoHash(d, salt) == d

\* The pre-save hook: a modified, non-empty password is replaced by its hash.
PreSaveHash(d, salt) ==
  IF d.password.hashed \/ d.password.text = ""
  THEN d
  ELSE [d EXCEPT !.password = Hash(d.password.text, salt)]

\* A mutant of the status update whose save hashes the stored password again:
\* the new hash is the hash of the old hash string, not of the password.
UpdateStatus_Rehash(coll, d) ==
  {IF u._id = d._id
   THEN [u EXCEPT !.status = d.status,
                  !.password = Hash("the stored hash string", u.password.salt)]
   ELSE u : u \in coll}

\* A mutant of the status update that writes nothing.
UpdateStatus_Noop(coll, d) == coll

\* save() of a loaded document whose only modified path is status:
\* updateOne({_id}, {$set: {status}}).
UpdateStatus(coll, d) ==
  {IF u._id = d._id THEN [u EXCEPT !.status = d.status] ELSE u : u \in coll}

(* ------------------------------ actions ------------------------------- *)

Ready(p) == pc[p] \in {"idle", "done"}

\* AuthController.signup up to `await user.save()`: the duplicate query,
\* new User(...), generateOTP().
Signup(p, email, phone, password, rnd) ==
  /\ Ready(p)
  /\ req' = [req EXCEPT ![p] = [op |-> "signup", email |-> email, phone |-> phone,
                                password |-> password, otp |-> <<>>]]
  /\ IF FindByEmailOrPhone(users, email, phone) # {}
     THEN /\ resp' = [resp EXCEPT ![p] = UserAlreadyExists]
          /\ doc' = [doc EXCEPT ![p] = <<>>]
          /\ pc' = [pc EXCEPT ![p] = "done"]
     ELSE /\ resp' = [resp EXCEPT ![p] = NoResponse]
          /\ doc' = [doc EXCEPT ![p] =
                       <<generateOTP(NewUser(FreshId, email, phone, password), now, rnd)>>]
          /\ pc' = [pc EXCEPT ![p] = "signup_save"]
  /\ UNCHANGED <<users, now, welcomeSent, verificationSent, activated, held, out, env>>

\* A mutant of signup's save that hands the code to the email service before
\* the document is saved.
SignupSave_MailFirst(p, salt) ==
  /\ pc[p] = "signup_save"
  /\ verificationSent' = verificationSent \cup
                           {[to |-> req[p].email, code |-> doc[p][1].otp[1].code]}
  /\ IF InsertAccepted(doc[p][1], users)
     THEN /\ users' = users \cup {PreSaveHash(doc[p][1], salt)}
          /\ doc' = [doc EXCEPT ![p] = <<PreSaveHash(doc[p][1], salt)>>]
          /\ pc' = [pc EXCEPT ![p] = "signup_mail"]
          /\ resp' = resp
     ELSE /\ users' = users
          /\ doc' = [doc EXCEPT ![p] = <<>>]
          /\ pc' = [pc EXCEPT ![p] = "done"]
          /\ resp' = [resp EXCEPT ![p] = SignupFailed]
  /\ UNCHANGED <<now, req, welcomeSent, activated, held, out, env>>

\* `await user.save()` of signup: validation, the hashing hook, the insert.
\* A rejected save throws, and the catch block answers 'Signup failed'.
SignupSave(p, salt) ==
  /\ pc[p] = "signup_save"
  /\ IF InsertAccepted(doc[p][1], users)
     THEN /\ users' = users \cup {PreSaveHash(doc[p][1], salt)}
          /\ doc' = [doc EXCEPT ![p] = <<PreSaveHash(doc[p][1], salt)>>]
          /\ pc' = [pc EXCEPT ![p] = "signup_mail"]
          /\ resp' = resp
     ELSE /\ users' = users
          /\ doc' = [doc EXCEPT ![p] = <<>>]
          /\ pc' = [pc EXCEPT ![p] = "done"]
          /\ resp' = [resp EXCEPT ![p] = SignupFailed]
  /\ UNCHANGED <<now, req, welcomeSent, verificationSent, activated, held, out, env>>

\* AuthController.verifyEmail up to `await user.save()`: the pending query,
\* isOTPValid, user.status = 'ACTIVE'.
VerifyEmail(p, email, otp) ==
  /\ Ready(p)
  /\ req' = [req EXCEPT ![p] = [op |-> "verify", email |-> email, phone |-> "",
                                password |-> "", otp |-> otp]]
  /\ LET found == FindPendingByEmail(users, email) IN
     IF found = {}
     THEN /\ resp' = [resp EXCEPT ![p] = UserNotFound]
          /\ doc' = [doc EXCEPT ![p] = <<>>]
          /\ pc' = [pc EXCEPT ![p] = "done"]
     ELSE \E user \in found :
          IF ~isOTPValid(user, otp, now)
          THEN /\ resp' = [resp EXCEPT ![p] = InvalidOTP]
               /\ doc' = [doc EXCEPT ![p] = <<>>]
               /\ pc' = [pc EXCEPT ![p] = "done"]
          ELSE /\ resp' = [resp EXCEPT ![p] = NoResponse]
               /\ doc' = [doc EXCEPT ![p] = <<[user EXCEPT !.status = "ACTIVE"]>>]
               /\ pc' = [pc EXCEPT ![p] = "verify_save"]
  /\ UNCHANGED <<users, now, welcomeSent, verificationSent, activated, held, out, env>>

\* `await user.save()` of verifyEmail: the status is written to the store.
VerifySave(p) ==
  /\ pc[p] = "verify_save"
  /\ IF doc[p][1].status \in StatusEnum
     THEN /\ users' = UpdateStatus(users, doc[p][1])
          /\ activated' = activated \cup
               {[_id |-> doc[p][1]._id, email |-> doc[p][1].email, code |-> req[p].otp]}
          /\ pc' = [pc EXCEPT ![p] = "verify_mail"]
          /\ doc' = doc
          /\ resp' = resp
     ELSE /\ users' = users
          /\ activated' = activated
          /\ pc' = [pc EXCEPT ![p] = "done"]
          /\ doc' = [doc EXCEPT ![p] = <<>>]
          /\ resp' = [resp EXCEPT ![p] = VerificationFailed]
  /\ UNCHANGED <<now, req, welcomeSent, verificationSent, held, out, env>>

\* EmailManager.sendEmail as awaited by sendEmailVerification (signup) and
\* sendWelcomeEmail (verifyEmail), with the rest of the calling handler.
\* sendEmail resolves true when the service is configured and the transport
\* accepts the message, and false otherwise: `sent` is that result.
SendEmail(p, sent) ==
  /\ pc[p] \in {"signup_mail", "verify_mail"}
  /\ LET user == doc[p][1]
     IN IF pc[p] = "signup_mail"
        THEN /\ verificationSent' =
                  IF sent THEN verificationSent \cup {[to |-> req[p].email, code |-> user.otp[1].code]}
                          ELSE verificationSent
             /\ welcomeSent' = welcomeSent
             /\ resp' = [resp EXCEPT ![p] = IF sent THEN OTPSent(req[p].email) ELSE DeliveryFailed]
        ELSE /\ welcomeSent' =
                  IF sent THEN [welcomeSent EXCEPT ![req[p].email] = @ + 1] ELSE welcomeSent
             /\ verificationSent' = verificationSent
             /\ resp' = [resp EXCEPT ![p] =
                           IF sent
                           THEN Verified(user, generateTokenPair(
                                  [userId |-> ToString(user._id), role |-> user.role], now))
                           ELSE WelcomeEmailFailed]
  /\ pc' = [pc EXCEPT ![p] = "done"]
  /\ doc' = [doc EXCEPT ![p] = <<>>]
  /\ UNCHANGED <<users, now, req, activated, held, out, env>>

\* Time passes.
Tick ==
  /\ now < MaxTicks * TickMs
  /\ now' = now + TickMs
  /\ UNCHANGED <<users, pc, req, doc, resp, welcomeSent,
                 verificationSent, activated, held, out, env>>

Next ==
  \/ \E p \in Procs, e \in Emails, ph \in Phones, pw \in Passwords, r \in RandomOutcomes :
       Signup(p, e, ph, pw, r)
  \/ \E p \in Procs, s \in Salts : SignupSave(p, s)
  \/ \E p \in Procs, e \in Emails, c \in SubmittedCodes : VerifyEmail(p, e, c)
  \/ \E p \in Procs : VerifySave(p)
  \/ \E p \in Procs, ok \in BOOLEAN : SendEmail(p, ok)
  \/ Tick

Spec == Init /\ [][Next]_vars

(* ---------------- the document methods, called directly --------------- *)

\* The caller that holds the document the methods are called on.
Caller == 1

\* Outcomes of Math.random() from both ends of [0, 1) and in between.
RandomSamples ==
  {<<0, 1>>, <<1, 900000>>, <<1, 2>>, <<999, 1000>>, <<899999, 900000>>}

\* Passwords a caller compares: the one the seeded hash was made of, another
\* one and the empty string.
Candidates == Passwords \cup {"secret2", ""}

\* What the password field of a stored document can hold: a bcrypt hash,
\* nothing, and strings that are no bcrypt hash.
StoredPasswords ==
  {Hash("secret1", "salt1"), Plain(""), Plain("secret1"), Plain(NotAHash60)}

\* The documents the methods are called on.
MethodAccounts ==
  {[a EXCEPT !.password = pw] :
     a \in {SeedAccount("USER", SeedOTP, "NEED_EMAIL_VERIFICATION"),
             SeedAccount("USER", <<>>, "NEED_EMAIL_VERIFICATION"),
             SeedAccount("ADMIN", SeedOTP, "ACTIVE")},
     pw \in StoredPasswords}

\* Instants the clock is read at: a challenge issued at 0 is seen fresh, at
\* its expiresAt, one millisecond later and one window later.
OTPInstants == {0, OTPWindowMs, OTPWindowMs + 1, 2 * OTPWindowMs}

\* Codes a caller submits: the seeded one, generated ones and a longer one.
CodesToCheck ==
  SubmittedCodes \cup {OTPCode(<<899999, 900000>>), Append(SeedCode, 0)}

DocumentInit ==
  /\ \E d \in MethodAccounts :
       /\ users = {d}
       /\ doc = [p \in Procs |-> IF p = Caller THEN <<d>> ELSE <<>>]
  /\ now = 0
  /\ pc = [p \in Procs |-> "idle"]
  /\ req = [p \in Procs |-> NoRequest]
  /\ resp = [p \in Procs |-> NoResponse]
  /\ welcomeSent = [e \in Emails |-> 0]
  /\ verificationSent = {}
  /\ activated = {}
  /\ held = <<>>
  /\ out = NoCall
  /\ env = TestEnv

\* new User({email, phone, password, signupMethod}) with no status: role and
\* status take their schema defaults.
Construct(signupMethod) ==
  /\ doc' = [doc EXCEPT ![Caller] =
               <<[NewUser(1, "a@x.com", "+12345678901", "secret1")
                    EXCEPT !.signupMethod = signupMethod,
                           !.status = DefaultStatus(signupMethod)]>>]
  /\ req' = [req EXCEPT ![Caller] = NoRequest]
  /\ out' = [op |-> "new User", arg |-> signupMethod, at |-> now,
             result |-> DefaultStatus(signupMethod)]
  /\ UNCHANGED <<users, now, pc, resp, welcomeSent, verificationSent,
                 activated, held, env>>

\* user.generateOTP()
GenerateOTP(rnd) ==
  /\ doc' = [doc EXCEPT ![Caller] = <<generateOTP(doc[Caller][1], now, rnd)>>]
  /\ out' = [op |-> "generateOTP", arg |-> rnd, at |-> now,
             result |-> generateOTP(doc[Caller][1], now, rnd).otp]
  /\ UNCHANGED <<users, now, pc, req, resp, welcomeSent, verificationSent,
                 activated, held, env>>

\* A mutant of the isOTPValid call that clears a challenge it accepts.
IsOTPValid_Consumes(code) ==
  /\ out' = [op |-> "isOTPValid", arg |-> code, at |-> now,
             result |-> isOTPValid(doc[Caller][1], code, now)]
  /\ doc' = IF isOTPValid(doc[Caller][1], code, now)
            THEN [doc EXCEPT ![Caller] = <<[doc[Caller][1] EXCEPT !.otp = <<>>]>>]
            ELSE doc
  /\ UNCHANGED <<users, now, pc, req, resp, welcomeSent, verificationSent,
                 activated, held, env>>

\* user.isOTPValid(code)
IsOTPValid(code) ==
  /\ out' = [op |-> "isOTPValid", arg |-> code, at |-> now,
             result |-> isOTPValid(doc[Caller][1], code, now)]
  /\ UNCHANGED <<users, now, pc, req, doc, resp, welcomeSent, verificationSent,
                 activated, held, env>>

\* The pre-save hook on the document after `user.password = password`.
SetPassword(password, salt) ==
  /\ doc' = [doc EXCEPT ![Caller] =
               <<PreSaveHash([doc[Caller][1] EXCEPT !.password = Plain(password)], salt)>>]
  /\ req' = [req EXCEPT ![Caller] = [NoRequest EXCEPT !.op = "password",
                                                      !.password = password]]
  /\ out' = [op |-> "save", arg |-> password, at |-> now, result |-> <<>>]
  /\ UNCHANGED <<users, now, pc, resp, welcomeSent, verificationSent,
                 activated, held, env>>

\* user.comparePassword(candidate)
ComparePassword(candidate) ==
  /\ out' = [op |-> "comparePassword", arg |-> candidate, at |-> now,
             result |-> comparePassword(doc[Caller][1], candidate)]
  /\ UNCHANGED <<users, now, pc, req, doc, resp, welcomeSent, verificationSent,
                 activated, held, env>>

\* Time passes to a later instant.
Elapse(t) ==
  /\ t > now
  /\ now' = t
  /\ UNCHANGED <<users, pc, req, doc, resp, welcomeSent, verificationSent,
                 activated, held, out, env>>

DocumentNext ==
  \/ \E m \in SignupMethods : Construct(m)
  \/ \E r \in RandomSamples : GenerateOTP(r)
  \/ \E c \in CodesToCheck : IsOTPValid(c)
  \/ \E pw \in Passwords \cup {"secret2"}, s \in Salts : SetPassword(pw, s)
  \/ \E c \in Candidates : ComparePassword(c)
  \/ \E t \in OTPInstants : Elapse(t)

DocumentSpec == DocumentInit /\ [][DocumentNext]_vars

(* ---------------- the JWTManager methods, called directly ------------- *)

\* A client refreshes its access token at most MaxRefreshes times.
MaxRefreshes == 2

\* UserSchema.role
Roles == {"USER", "ADMIN", "DEVELOPER"}

\* Payloads generateTokenPair is called with: user._id.toString() and a
\* role, or no role.
Payloads ==
  {[userId |-> ToString(1), role |-> r] : r \in {"USER", "ADMIN", NoRole}}
    \cup {[userId |-> ToString(2), role |-> "DEVELOPER"]}

\* Instants the clock is read at: a pair issued at 0 is seen fresh, one
\* millisecond before and at the expiry of its access token, and the same
\* for its refresh token.
TokenInstants ==
  {0, 1000 * accessTokenExpiry - 1, 1000 * accessTokenExpiry,
   1000 * refreshTokenExpiry - 1, 1000 * refreshTokenExpiry}

\* A token whose signature was made with another key.
Tampered(token) == [token EXCEPT !.key = "another-secret"]

\* A token signed with the manager's key for another audience.
OtherAudience(token) == [token EXCEPT !.claims.aud = "another-frontend"]

\* The strings a client can present: the tokens it holds, altered copies of
\* them and a string that is no JWT.
Presentable ==
  {NotAJWT} \cup
    IF held = <<>>
    THEN {}
    ELSE {held[1].accessToken, held[1].refreshToken,
          Tampered(held[1].accessToken), Tampered(held[1].refreshToken),
          OtherAudience(held[1].accessToken), OtherAudience(held[1].refreshToken)}

TokenInit ==
  /\ users = {SeedAccount("USER", SeedOTP, "ACTIVE")}
  /\ now = 0
  /\ pc = [p \in Procs |-> "idle"]
  /\ req = [p \in Procs |-> NoRequest]
  /\ doc = [p \in Procs |-> <<>>]
  /\ resp = [p \in Procs |-> NoResponse]
  /\ welcomeSent = [e \in Emails |-> 0]
  /\ verificationSent = {}
  /\ activated = {}
  /\ held = <<>>
  /\ out = NoCall
  /\ env \in Environments

\* generateTokenPair(payload): the client holds the new pair.
GenerateTokenPair(payload) ==
  /\ held' = <<[payload |-> payload,
                accessToken |-> generateTokenPair(payload, now).accessToken,
                refreshToken |-> generateTokenPair(payload, now).refreshToken,
                refreshes |-> 0]>>
  /\ out' = [op |-> "generateTokenPair", arg |-> payload, at |-> now,
             result |-> generateTokenPair(payload, now), stored |-> users]
  /\ UNCHANGED <<users, now, pc, req, doc, resp, welcomeSent, verificationSent,
                 activated, env>>

\* verifyAccessToken(token)
VerifyAccessToken(token) ==
  /\ out' = [op |-> "verifyAccessToken", arg |-> token, at |-> now,
             result |-> verifyAccessToken(token, now), stored |-> users]
  /\ UNCHANGED <<users, now, pc, req, doc, resp, welcomeSent, verificationSent,
                 activated, held, env>>

\* verifyRefreshToken(token)
VerifyRefreshToken(token) ==
  /\ out' = [op |-> "verifyRefreshToken", arg |-> token, at |-> now,
             result |-> verifyRefreshToken(token, now), stored |-> users]
  /\ UNCHANGED <<users, now, pc, req, doc, resp, welcomeSent, verificationSent,
                 activated, held, env>>

\* refreshAccessToken(token): on success the client replaces the access
\* token it holds by the new one.
RefreshAccessToken(token) ==
  /\ held # <<>> => held[1].refreshes < MaxRefreshes
  /\ out' = [op |-> "refreshAccessToken", arg |-> token, at |-> now,
             result |-> refreshAccessToken(token, now), stored |-> users]
  /\ held' = IF refreshAccessToken(token, now).ok
             THEN <<[held[1] EXCEPT !.accessToken = refreshAccessToken(token, now).token[1],
                                    !.refreshes = @ + 1]>>
             ELSE held
  /\ UNCHANGED <<users, now, pc, req, doc, resp, welcomeSent, verificationSent,
                 activated, env>>

\* Another writer of the database sets the status of the stored account.
StatusChange(status) ==
  /\ users' = {[u EXCEPT !.status = status] : u \in users}
  /\ users' # users
  /\ UNCHANGED <<now, pc, req, doc, resp, welcomeSent, verificationSent,
                 activated, held, out, env>>

TokenNext ==
  \/ \E payload \in Payloads : GenerateTokenPair(payload)
  \/ \E token \in Presentable : VerifyAccessToken(token)
  \/ \E token \in Presentable : VerifyRefreshToken(token)
  \/ \E token \in Presentable : RefreshAccessToken(token)
  \/ \E status \in {"ACTIVE", "BLOCKED"} : StatusChange(status)
  \/ \E t \in TokenInstants : Elapse(t)

TokenSpec == TokenInit /\ [][TokenNext]_vars

(* ------------------------- vocabulary of the claims -------------------- *)

\* Handler p takes a step.
Moves(p) ==
  \/ pc'[p] # pc[p]
  \/ req'[p] # req[p]
  \/ doc'[p] # doc[p]
  \/ resp'[p] # resp[p]

\* Handler p receives a verify request in this step.
StartsVerify(p) == Ready(p) /\ Moves(p) /\ req'[p].op = "verify"

\* Handler p receives a signup request in this step.
StartsSignup(p) == Ready(p) /\ Moves(p) /\ req'[p].op = "signup"

\* Handler p has answered a request of kind op.
Answered(p, op) == pc[p] = "done" /\ req[p].op = op

\* The stored accounts an identifier names.
AccountsOf(email) == {u \in users : u.email = email}

\* A stored account is pending with an open challenge.
PendingWithChallenge(u) == u.status = "NEED_EMAIL_VERIFICATION" /\ u.otp # <<>>

(* ------------------------------- claims -------------------------------- *)

\* C1 (as claimed): every verify call that submitted the open challenge's
\* code in time on a pending account, that is every verify call that got
\* past the lookup and the validation, has the account stored ACTIVE and
\* returns a token pair whose access token carries the account's id and
\* role, whether or not the welcome email could be delivered.
C1_VerifyReturnsTokens ==
  \A p \in Procs :
    (Answered(p, "verify") /\ resp[p] \notin {UserNotFound, InvalidOTP}) =>
      /\ resp[p].success
      /\ resp[p].data.kind = "session"
      /\ \E u \in AccountsOf(req[p].email) :
           /\ u.status = "ACTIVE"
           /\ resp[p].data.accessToken.claims.userId = ToString(u._id)
           /\ resp[p].data.accessToken.claims.role = u.role

\* C2: a verify call whose code differs from the code of the pending
\* account's open challenge answers 'Invalid OTP' and changes neither the
\* store nor the set of activated accounts, so the challenge is still open
\* for a later attempt.
C2_WrongCodeLeavesAccount ==
  [][\A p \in Procs :
       (/\ StartsVerify(p)
        /\ \E u \in AccountsOf(req'[p].email) :
             PendingWithChallenge(u) /\ u.otp[1].code # req'[p].otp)
       => /\ resp'[p] = InvalidOTP
          /\ pc'[p] = "done"
          /\ users' = users
          /\ activated' = activated
          /\ welcomeSent' = welcomeSent]_vars

\* C2 witness: a wrong attempt was answered 'Invalid OTP' and a later
\* attempt with the right code on the same account was accepted and
\* returned its session.
C2_Witness ==
  \E p, q \in Procs :
    /\ Answered(p, "verify") /\ resp[p] = InvalidOTP
    /\ Answered(q, "verify") /\ resp[q].success
    /\ req[p].email = req[q].email
    /\ req[p].otp # req[q].otp
    /\ \E u \in AccountsOf(req[p].email) : u.otp # <<>> /\ u.otp[1].code = req[q].otp

\* C3 (as claimed): an account that a verify made ACTIVE has no otp in the
\* store.
C3_VerifiedHasNoOTP ==
  \A a \in activated : \A u \in users : u._id = a._id => u.otp = <<>>

\* C4 (as claimed): a verify call with the identifier and code of an earlier
\* successful verify answers 'Invalid OTP', issues nothing and changes
\* nothing.
C4_SecondVerifyInvalidOTP ==
  [][\A p \in Procs :
       (/\ StartsVerify(p)
        /\ \E a \in activated : a.email = req'[p].email /\ a.code = req'[p].otp)
       => /\ resp'[p] = InvalidOTP
          /\ pc'[p] = "done"
          /\ users' = users
          /\ welcomeSent' = welcomeSent]_vars

\* C4 (amended): a verify call with the identifier and code of an earlier
\* successful verify is rejected with 'User not found', issues nothing and
\* changes nothing.
C4_SecondVerifyRejected ==
  [][\A p \in Procs :
       (/\ StartsVerify(p)
        /\ \E a \in activated : a.email = req'[p].email /\ a.code = req'[p].otp)
       => /\ resp'[p] = UserNotFound
          /\ pc'[p] = "done"
          /\ users' = users
          /\ activated' = activated
          /\ welcomeSent' = welcomeSent]_vars

\* C4 witness: after a verify returned its session, a second verify with
\* the same identifier and code has been answered.
C4_Witness ==
  \E p, q \in Procs :
    /\ p # q
    /\ Answered(p, "verify") /\ resp[p].success
    /\ Answered(q, "verify") /\ resp[q] = UserNotFound
    /\ req[p].email = req[q].email /\ req[p].otp = req[q].otp

\* C5 (as claimed): the welcome email is delivered at most once per account.
C5_WelcomeAtMostOnce ==
  \A e \in Emails : welcomeSent[e] <= 1

\* C6 (as claimed): every save that makes an account ACTIVE finds the stored
\* account still pending, with the challenge that was validated.
C6_ActivationIsAtomic ==
  [][\A p \in Procs :
       (pc[p] = "verify_save" /\ pc'[p] = "verify_mail") =>
         \E u \in users :
           /\ u._id = doc[p][1]._id
           /\ u.status = "NEED_EMAIL_VERIFICATION"
           /\ u.otp = doc[p][1].otp]_vars

\* C7 (as claimed): the save of a signup whose email and phone match no
\* stored account adds exactly one account, with signupMethod EMAIL, status
\* NEED_EMAIL_VERIFICATION and an open challenge.
C7_SignupPersistsPending ==
  [][\A p \in Procs :
       (/\ pc[p] = "signup_save" /\ pc'[p] # "signup_save"
        /\ FindByEmailOrPhone(users, req[p].email, req[p].phone) = {})
       => \E u \in users' :
            /\ users' = users \cup {u}
            /\ u \notin users
            /\ u.email = req[p].email
            /\ u.phone = req[p].phone
            /\ u.signupMethod = "EMAIL"
            /\ u.status = "NEED_EMAIL_VERIFICATION"
            /\ u.otp # <<>>]_vars

\* C8: a signup whose email or phone belongs to a stored account, whatever
\* its status, answers 'User already exists', leaves the store as it was and
\* sends no verification email.
C8_DuplicateSignupRejected ==
  [][\A p \in Procs :
       (/\ StartsSignup(p)
        /\ \E u \in users : u.email = req'[p].email \/ u.phone = req'[p].phone)
       => /\ resp'[p] = UserAlreadyExists
          /\ pc'[p] = "done"
          /\ doc'[p] = <<>>
          /\ users' = users
          /\ verificationSent' = verificationSent]_vars

\* C8 witness: a signup that shares only its phone with a stored account
\* that is not pending has been answered 'User already exists'.
C8_Witness ==
  \E p \in Procs :
    /\ Answered(p, "signup") /\ resp[p] = UserAlreadyExists
    /\ \E u \in users :
         /\ u.phone = req[p].phone
         /\ u.email # req[p].email
         /\ u.status = "BLOCKED"

C11_ExpiredCodeRejected ==
  [][\A p \in Procs :
       (/\ StartsVerify(p)
        /\ \E u \in AccountsOf(req'[p].email) :
             /\ PendingWithChallenge(u)
             /\ u.otp[1].code = req'[p].otp
             /\ now > u.otp[1].expiresAt)
       => /\ resp'[p] = InvalidOTP
          /\ pc'[p] = "done"
          /\ users' = users
          /\ activated' = activated]_vars

\* C11 witness: a verify call with the matching code was answered
\* 'Invalid OTP' and the account is still pending, its challenge expired.
C11_Witness ==
  \E p \in Procs :
    /\ Answered(p, "verify") /\ resp[p] = InvalidOTP
    /\ \E u \in AccountsOf(req[p].email) :
         /\ PendingWithChallenge(u)
         /\ u.otp[1].code = req[p].otp
         /\ now > u.otp[1].expiresAt

\* The number a string of decimal digits denotes.
RECURSIVE Value(_)
Value(digits) ==
  IF digits = <<>> THEN 0
  ELSE 10 * Value(SubSeq(digits, 1, Len(digits) - 1)) + digits[Len(digits)]

\* C12: isOTPValid(code) returns true exactly when the document has a
\* challenge, the call is made no later than the challenge's expiresAt and
\* the submitted code is the challenge's code; in every other case false.
C12_ValidExactlyWhen ==
  out.op = "isOTPValid" =>
    LET otp == doc[Caller][1].otp
    IN out.result = IF otp = <<>>
                    THEN FALSE
                    ELSE out.at <= otp[1].expiresAt /\ out.arg = otp[1].code

\* C12 witness: the code of the challenge was found valid at the very
\* instant of expiresAt.
C12_Witness ==
  /\ out.op = "isOTPValid"
  /\ out.result = TRUE
  /\ doc[Caller][1].otp # <<>>
  /\ out.at = doc[Caller][1].otp[1].expiresAt

\* C13: generateOTP returns a code of six decimal digits denoting a number
\* in 100000..999999 and an expiresAt ten minutes (600000 ms) after the
\* call, and the document's challenge is that same {code, expiresAt}.
C13_GeneratedChallenge ==
  out.op = "generateOTP" =>
    /\ Len(out.result) = 1
    /\ Len(out.result[1].code) = 6
    /\ \A i \in 1..Len(out.result[1].code) : out.result[1].code[i] \in 0..9
    /\ Value(out.result[1].code) \in 100000..999999
    /\ out.result[1].expiresAt = out.at + 600000
    /\ doc[Caller][1].otp = out.result

\* C13 witness: a generateOTP call made after time 0 drew the largest code.
C13_Witness ==
  /\ out.op = "generateOTP"
  /\ out.at > 0
  /\ Value(out.result[1].code) = 999999
  /\ doc[Caller][1].otp = out.result

\* The token is one the client holds, and the call was made before the
\* token's exp.
HeldAndFresh(token) ==
  /\ held # <<>>
  /\ token \in {held[1].accessToken, held[1].refreshToken}
  /\ (out.at \div 1000) < token.claims.exp

\* C14: verifyAccessToken on the access token of a pair generateTokenPair
\* issued, called before the token's exp, succeeds and returns the userId
\* and the role the pair was issued for; verifyRefreshToken on the pair's
\* refresh token likewise.
C14_RoundTrip ==
  /\ (out.op = "verifyAccessToken" /\ HeldAndFresh(out.arg)
        /\ out.arg = held[1].accessToken)
       => /\ out.result.ok
          /\ out.result.payload[1].userId = held[1].payload.userId
          /\ out.result.payload[1].role = held[1].payload.role
  /\ (out.op = "verifyRefreshToken" /\ HeldAndFresh(out.arg)
        /\ out.arg = held[1].refreshToken)
       => /\ out.result.ok
          /\ out.result.payload[1].userId = held[1].payload.userId
          /\ out.result.payload[1].role = held[1].payload.role

\* C14 witness: an access token issued for an ADMIN was verified some time
\* after it was issued.
C14_Witness ==
  /\ out.op = "verifyAccessToken"
  /\ held # <<>> /\ out.arg = held[1].accessToken
  /\ out.result.ok
  /\ out.result.payload[1].role = "ADMIN"
  /\ out.at > 1000 * out.arg.claims.iat

\* C15 (as claimed): a verification of a string that cannot be parsed fails
\* with an error of its own, neither the error of an expired token nor the
\* error of a token whose signature, issuer or audience does not match.
C15_ThreeFailureKinds ==
  (out.op \in {"verifyAccessToken", "verifyRefreshToken"} /\ out.arg = NotAJWT)
    => /\ ~out.result.ok
       /\ out.result.error \notin
            {"Access token has expired", "Refresh token has expired",
             "Invalid access token", "Invalid refresh token"}

\* C16: refreshAccessToken on a refresh token the manager signed, called at
\* or after the token's exp, fails with 'Refresh token has expired'; and
\* every failing refreshAccessToken call returns no token and throws the
\* error verifyRefreshToken throws for that token.
C16_RefreshPropagatesFailure ==
  out.op = "refreshAccessToken" =>
    /\ (/\ held # <<>>
        /\ out.arg = held[1].refreshToken
        /\ (out.at \div 1000) >= out.arg.claims.exp)
       => /\ ~out.result.ok
          /\ out.result.error = "Refresh token has expired"
    /\ ~out.result.ok
       => /\ out.result.token = <<>>
          /\ out.result.error = verifyRefreshToken(out.arg, out.at).error

\* C16 witness: a refresh with the held refresh token failed as expired.
C16_Witness ==
  /\ out.op = "refreshAccessToken"
  /\ held # <<>> /\ out.arg = held[1].refreshToken
  /\ ~out.result.ok
  /\ out.result.error = "Refresh token has expired"

\* C17: a successful refreshAccessToken call returns an access token that
\* verifyAccessToken accepts and whose userId and role are those of the
\* refresh token presented, whatever the stored account says.
C17_RefreshCopiesClaims ==
  (out.op = "refreshAccessToken" /\ out.result.ok) =>
    /\ verifyAccessToken(out.result.token[1], out.at).ok
    /\ out.result.token[1].claims.userId = out.arg.claims.userId
    /\ out.result.token[1].claims.role = out.arg.claims.role

\* C17 witness: a refresh token issued for an ADMIN was refreshed while the
\* stored account of that id has role USER.
C17_Witness ==
  /\ out.op = "refreshAccessToken" /\ out.result.ok
  /\ out.arg.claims.role = "ADMIN"
  /\ out.result.token[1].claims.role = "ADMIN"
  /\ \E u \in out.stored : ToString(u._id) = out.arg.claims.userId /\ u.role = "USER"

\* C18: refreshAccessToken called with the held refresh token before the
\* token's exp succeeds, however often the token was used before and
\* whatever the status of the stored account is.
C18_NoRevocation ==
  (out.op = "refreshAccessToken" /\ HeldAndFresh(out.arg)
     /\ out.arg = held[1].refreshToken)
    => out.result.ok

\* C18 witness: the same refresh token was accepted a second time, one
\* millisecond before its expiry, while the stored account was BLOCKED.
C18_Witness ==
  /\ out.op = "refreshAccessToken" /\ out.result.ok
  /\ held # <<>> /\ out.arg = held[1].refreshToken
  /\ held[1].refreshes >= 2
  /\ out.at = 1000 * out.arg.claims.exp - 1
  /\ \E u \in out.stored : ToString(u._id) = out.arg.claims.userId /\ u.status = "BLOCKED"

\* C19: once the pre-save hook has hashed a password p set on the document,
\* comparePassword(p) returns true and comparePassword(q) returns false for
\* every other q.
C19_CompareMatchesHashed ==
  (out.op = "comparePassword" /\ req[Caller].op = "password") =>
    out.result = IF out.arg = req[Caller].password THEN "true" ELSE "false"

\* C19 witness: a document whose stored password was replaced through the
\* hook accepted the new password.
C19_Witness ==
  /\ out.op = "comparePassword"
  /\ req[Caller].op = "password"
  /\ req[Caller].password = "secret2"
  /\ out.arg = "secret2"
  /\ out.result = "true"

\* C20 (as claimed): comparePassword returns false, and raises nothing, when
\* the document has no password, when its password is no bcrypt hash and
\* when the candidate is empty.
C20_CompareNeverRaises ==
  (/\ out.op = "comparePassword"
   /\ \/ doc[Caller][1].password.text = ""
      \/ ~doc[Caller][1].password.hashed
      \/ out.arg = "")
    => out.result = "false"

\* C21: generateOTP called on a document that is not ACTIVE replaces the
\* document's otp by a challenge that expires ten minutes after the call,
\* leaves every other field as it was, and the code of the challenge it
\* replaced is valid at no instant afterwards unless the new code is the
\* same.
C21_ReissueReplacesOTP ==
  [][(/\ out'.op = "generateOTP"
      /\ out' # out
      /\ doc[Caller][1].status # "ACTIVE")
     => /\ doc'[Caller][1].otp = out'.result
        /\ doc'[Caller][1].otp[1].expiresAt = now + 600000
        /\ [doc'[Caller][1] EXCEPT !.otp = doc[Caller][1].otp] = doc[Caller][1]
        /\ (/\ doc[Caller][1].otp # <<>>
            /\ doc[Caller][1].otp[1].code # doc'[Caller][1].otp[1].code)
           => \A t \in OTPInstants :
                ~isOTPValid(doc'[Caller][1], doc[Caller][1].otp[1].code, t)]_vars

\* C21 witness: on a pending document whose challenge was re-issued, the
\* superseded code was rejected at an instant at which both the old and the
\* new challenge were still in their windows.
C21_Witness ==
  /\ out.op = "isOTPValid"
  /\ out.arg = SeedCode
  /\ out.result = FALSE
  /\ doc[Caller][1].status = "NEED_EMAIL_VERIFICATION"
  /\ doc[Caller][1].otp # <<>>
  /\ doc[Caller][1].otp[1].code # SeedCode
  /\ out.at <= OTPWindowMs
  /\ out.at <= doc[Caller][1].otp[1].expiresAt

\* C22 (as claimed): a document constructed without a status starts in the
\* state of its signup method: EMAIL in NEED_EMAIL_VERIFICATION, PHONE in
\* NEED_PHONE_VERIFICATION, GOOGLE in ACTIVE.
C22_InitialStatusByMethod ==
  out.op = "new User" =>
    doc[Caller][1].status =
      CASE out.arg = "EMAIL" -> "NEED_EMAIL_VERIFICATION"
        [] out.arg = "PHONE" -> "NEED_PHONE_VERIFICATION"
        [] out.arg = "GOOGLE" -> "ACTIVE"

\* C23: no step of a signup or verify handler changes the status of a stored
\* account that is BLOCKED.
C23_BlockedIsTerminal ==
  [][\A u \in users :
       u.status = "BLOCKED" =>
         \E v \in users' : v._id = u._id /\ v.status = "BLOCKED"]_vars

\* C23 witness: a verify call with the code of the challenge of a BLOCKED
\* account, made inside the challenge's window, was answered and the account
\* is still BLOCKED.
C23_Witness ==
  \E p \in Procs :
    /\ Answered(p, "verify")
    /\ now <= OTPWindowMs
    /\ \E u \in AccountsOf(req[p].email) :
         /\ u.status = "BLOCKED"
         /\ u.otp # <<>>
         /\ u.otp[1].code = req[p].otp

\* C24: a call of isOTPValid, whatever the code and whatever the answer,
\* leaves the document and the stored accounts exactly as they were.
C24_ValidationMutatesNothing ==
  [][(out'.op = "isOTPValid" /\ out' # out)
     => /\ doc' = doc
        /\ users' = users]_vars

\* C24 witness: a code was found valid and the document still carries the
\* challenge with that code.
C24_Witness ==
  /\ out.op = "isOTPValid"
  /\ out.result = TRUE
  /\ doc[Caller][1].otp # <<>>
  /\ doc[Caller][1].otp[1].code = out.arg
  /\ out.at > 0

\* A verify call for the account can still succeed: its challenge has not
\* expired, or a handler that accepted the code is about to save.
CanStillVerify(u) ==
  \/ now <= u.otp[1].expiresAt
  \/ \E p \in Procs : pc[p] = "verify_save" /\ doc[p][1]._id = u._id

\* C25 (as claimed): a stored account that is pending with a challenge is
\* never stuck: the exposed operations can still lead it to ACTIVE, also
\* after its challenge has expired.  Signup answers 'User already exists'
\* for it and no exposed operation issues a new challenge, so it can become
\* ACTIVE exactly as long as a verify call can still succeed.
C25_PendingNeverStuck ==
  \A u \in users : PendingWithChallenge(u) => CanStillVerify(u)

\* C26: every verification code the email service was handed is the code of
\* a stored account with that address, a handler about to send holds a
\* stored document, and a signup answered 'Signup failed' has sent no email
\* to its address and left no account with it.
C26_MailOnlyAfterPersist ==
  /\ \A m \in verificationSent :
       \E u \in users : u.email = m.to /\ u.otp # <<>> /\ u.otp[1].code = m.code
  /\ \A p \in Procs :
       pc[p] = "signup_mail" => doc[p][1] \in users
  /\ \A p \in Procs :
       (Answered(p, "signup") /\ resp[p] = SignupFailed)
         => /\ \A m \in verificationSent : m.to # req[p].email
            /\ AccountsOf(req[p].email) = {}

\* C26 witness: the save of a signup failed and the signup was answered
\* 'Signup failed'.
C26_Witness ==
  \E p \in Procs :
    /\ Answered(p, "signup")
    /\ resp[p] = SignupFailed
    /\ verificationSent = {}
    /\ AccountsOf(req[p].email) = {}

\* C27: a handler that has got past verify's save, and every token pair a
\* verify call returned, belongs to an account that is stored ACTIVE; a
\* verify call that failed returned no token.
C27_TokensOnlyAfterActive ==
  \A p \in Procs :
    /\ (pc[p] = "verify_mail")
         => \E u \in users : u._id = doc[p][1]._id /\ u.status = "ACTIVE"
    /\ Answered(p, "verify")
         => IF resp[p].data.kind = "session"
            THEN \E u \in users :
                   /\ u.status = "ACTIVE"
                   /\ resp[p].data.accessToken.claims.userId = ToString(u._id)
                   /\ resp[p].data.refreshToken.claims.userId = ToString(u._id)
            ELSE ~resp[p].success /\ resp[p].data = NoData

\* C27 witness: a verify call returned a token pair for an account that is
\* stored ACTIVE, and another verify call failed.
C27_Witness ==
  \E p, q \in Procs :
    /\ Answered(p, "verify") /\ resp[p].data.kind = "session"
    /\ \E u \in users :
         /\ u.status = "ACTIVE"
         /\ resp[p].data.accessToken.claims.userId = ToString(u._id)
    /\ Answered(q, "verify") /\ ~resp[q].success

\* C28 (as claimed): in every environment the manager can be started in, the
\* refresh token of an issued pair is rejected by verifyAccessToken and the
\* access token is rejected by verifyRefreshToken and by refreshAccessToken.
C28_TokenKindsNotInterchangeable ==
  held # <<>> =>
    /\ (out.op = "verifyAccessToken" /\ out.arg = held[1].refreshToken)
         => ~out.result.ok
    /\ (out.op \in {"verifyRefreshToken", "refreshAccessToken"}
          /\ out.arg = held[1].accessToken)
         => ~out.result.ok

\* C29: no stored password is a plaintext, and an account that a verify made
\* ACTIVE still accepts the password its hash was made of, and no other.
C29_PasswordHashedOnce ==
  /\ \A u \in users : u.password.hashed
  /\ \A u \in users : \A pw \in Passwords : u.password # Plain(pw)
  /\ \A a \in activated : \A u \in users :
       u._id = a._id
         => /\ comparePassword(u, "secret1") = "true"
            /\ comparePassword(u, "secret2") = "false"

\* C29 witness: a verify call has saved an account as ACTIVE.
C29_Witness ==
  \E a \in activated : \E u \in users :
    /\ u._id = a._id
    /\ u.status = "ACTIVE"
    /\ comparePassword(u, "secret1") = "true"

\* C30: the user object in the answer of a successful verify has neither a
\* password field nor an otp field.
C30_SerialisedUserIsStripped ==
  \A p \in Procs :
    (Answered(p, "verify") /\ resp[p].data.kind = "session")
      => {"password", "otp"} \cap DOMAIN resp[p].data.user = {}

\* C30 witness: a verify call returned the user object of an account whose
\* stored document carries a password hash and a challenge.
C30_Witness ==
  \E p \in Procs :
    /\ Answered(p, "verify") /\ resp[p].data.kind = "session"
    /\ \E u \in users :
         /\ u._id = resp[p].data.user._id
         /\ u.password.hashed
         /\ u.otp # <<>>

====
